---- MODULE Spec2Model ----
(***************************************************************************)
(* Resume analysis pipeline (analyzer/text_classification.py) and the     *)
(* upload view that drives it (analyzer/views.py, upload_resume_view).    *)
(*                                                                         *)
(* A Python string is modelled as a sequence of tokens.  A token is a     *)
(* TLA+ string standing for an indivisible piece of text: one whitespace  *)
(* or control character, one bullet character, one word, or one literal   *)
(* fragment of a message built by the code.  The empty string is <<>>.    *)
(***************************************************************************)
EXTENDS Integers, Sequences, FiniteSets, TLC

(* ------------------------------------------------------------------ *)
(* Bounds of the model                                                 *)
(* ------------------------------------------------------------------ *)

\* Largest number of matches the grammar service reports in a run.
MaxGrammarMatches == 2

(* ------------------------------------------------------------------ *)
(* Characters and words                                                *)
(* ------------------------------------------------------------------ *)

None == "None"

NUL == "\\x00"
\* A control character that Python's \s does not match.
SOH == "\\x01"

\* Tokens that Python's str.strip() and the regex class \s treat as whitespace.
Whitespace == {" ", "\n", "\t"}

\* The characters of the regex class [-U+2022*]; U+2022 is the round bullet.
BulletChars == {"-", "U+2022", "*"}

ACTION_VERBS ==
    {"achieved", "improved", "managed", "led", "created", "designed", "implemented",
     "reduced", "increased", "developed", "engineered", "launched", "optimized",
     "automated", "orchestrated", "resolved", "boosted", "coordinated", "spearheaded",
     "delivered", "built", "founded", "mentored", "trained", "negotiated"}

REQUIRED_SECTIONS == <<"+91", "summary", "skills", "experience", "Projects", "education", "LinkedIn">>

\* Words of the documents and job descriptions that are not in the two lists above.
OtherWords ==
    {"Achieved", "Improved", "Led", "Skills", "Summary", "Experience", "Education", "linkedin",
     "projects", "python", "Python", "django", "java", "javascript", "kubernetes",
     "rust", "sql", "SQL", "team", "of", "go"}

\* str.lower() on one token.
Lower(t) ==
    CASE t = "Achieved" -> "achieved"
      [] t = "Improved" -> "improved"
      [] t = "Led" -> "led"
      [] t = "Skills" -> "skills"
      [] t = "Summary" -> "summary"
      [] t = "Experience" -> "experience"
      [] t = "Education" -> "education"
      [] t = "Projects" -> "projects"
      [] t = "LinkedIn" -> "linkedin"
      [] t = "Python" -> "python"
      [] t = "SQL" -> "sql"
      [] t = ".PDF" -> ".pdf"
      [] OTHER -> t

\* A run of plain words, none of them an action verb, a section label or a keyword,
\* separated by single spaces: kept as one token.
Filler == "(plain words)"
FillerWords == 284

\* Number of whitespace-separated words in one token that is not whitespace.
WordsIn(t) == IF t = Filler THEN FillerWords ELSE 1

\* Tokens made of ASCII letters only (the regex class [a-zA-Z]).
IsAlpha(t) ==
    \/ t \in ACTION_VERBS
    \/ t \in OtherWords
    \/ t \in {"summary", "skills", "experience", "Projects", "education", "LinkedIn"}

\* Tokens whose first character is a word character (\w) / whose last one is.
StartsWithWordChar(t) == IsAlpha(t)
EndsWithWordChar(t) == IsAlpha(t) \/ t = "+91"

\* Tokens that \b[A-Za-z0-9\+\#\-\_]+\b matches whole: made of those characters only,
\* starting and ending with a word character.
IsKeywordToken(t) == IsAlpha(t)

\* k occurs in t as a substring (Python's `k in t` on two lower-cased tokens).
SubstringOf(k, t) ==
    \/ k = t
    \/ <<k, t>> \in {<<"java", "javascript">>, <<"go", "django">>}

(* ------------------------------------------------------------------ *)
(* String helpers                                                      *)
(* ------------------------------------------------------------------ *)

RECURSIVE LStrip(_)
LStrip(s) ==
    IF s # <<>> /\ Head(s) \in Whitespace THEN LStrip(Tail(s)) ELSE s

RECURSIVE RStrip(_)
RStrip(s) ==
    IF s # <<>> /\ s[Len(s)] \in Whitespace THEN RStrip(SubSeq(s, 1, Len(s) - 1)) ELSE s

\* str.strip()
Strip(s) == RStrip(LStrip(s))

\* sep.join(parts)
RECURSIVE Join(_, _)
Join(sep, parts) ==
    IF parts = <<>> THEN <<>>
    ELSE IF Len(parts) = 1 THEN parts[1]
    ELSE parts[1] \o sep \o Join(sep, Tail(parts))

\* [p for p in parts if p.strip()]
NonBlankParts(parts) == SelectSeq(parts, LAMBDA p : Strip(p) # <<>>)

\* [p for p in parts if p]
NonEmptyParts(parts) == SelectSeq(parts, LAMBDA p : p # <<>>)

Min(a, b) == IF a < b THEN a ELSE b

\* dict.get(key, default)
Get(d, k, default) == IF k \in DOMAIN d THEN d[k] ELSE default

\* s.startswith(p), p a single token
StartsWith(s, p) == s # <<>> /\ s[1] = p

\* the token t occurs in s
Contains(s, t) == \E i \in 1..Len(s) : s[i] = t

(* ------------------------------------------------------------------ *)
(* clean_text                                                          *)
(* ------------------------------------------------------------------ *)

\* text.replace("\x00", " ")
ReplaceNul(s) == [i \in 1..Len(s) |-> IF s[i] = NUL THEN " " ELSE s[i]]

\* re.sub(r'\s+', ' ', text)
RECURSIVE CollapseWhitespace(_)
CollapseWhitespace(s) ==
    IF s = <<>> THEN <<>>
    ELSE IF Head(s) \in Whitespace
         THEN <<" ">> \o CollapseWhitespace(LStrip(s))
         ELSE <<Head(s)>> \o CollapseWhitespace(Tail(s))

\* clean_text without the replacement of NUL bytes.
clean_text_keeps_nul(text) == Strip(CollapseWhitespace(text))

clean_text(text) == Strip(CollapseWhitespace(ReplaceNul(text)))

(* ------------------------------------------------------------------ *)
(* State                                                               *)
(* ------------------------------------------------------------------ *)

VARIABLES
    \* module-level capability flags, set once when the module is imported
    PDFPLUMBER_AVAILABLE, DOCX_AVAILABLE, LANG_TOOL_AVAILABLE, PDF2IMAGE_AVAILABLE,
    PYTESSERACT_AVAILABLE, GENAI_AVAILABLE,
    EMBED_MODEL,       \* None, or "all-MiniLM-L6-v2" when the model loaded
    GEMINI_API_KEY,    \* settings.GEMINI_API_KEY: None, "" or a key
    storage,           \* default_storage: file name -> file content
    pc,                \* position of the request being served
    file_name,         \* upload_resume_view: name returned by default_storage.save
    job_desc,          \* upload_resume_view: form.cleaned_data['job_description']
    feedback,          \* upload_resume_view: feedback
    resume_text,       \* analyze_resume: resume_text
    analysis,          \* analyze_resume: analysis
    result,            \* value returned by analyze_resume
    raised,            \* exception in flight in the view: None, or its class
    trace,             \* calls made by the current analyze_resume run, in order
    faults,            \* the calls of the current run in which a library or service raised
    response           \* what the view handed back for the last request

vars == <<PDFPLUMBER_AVAILABLE, DOCX_AVAILABLE, LANG_TOOL_AVAILABLE, PDF2IMAGE_AVAILABLE,
          PYTESSERACT_AVAILABLE, GENAI_AVAILABLE, EMBED_MODEL, GEMINI_API_KEY, storage, pc,
          file_name, job_desc, feedback, resume_text, analysis, result, raised, trace,
          faults, response>>

capabilities == <<PDFPLUMBER_AVAILABLE, DOCX_AVAILABLE, LANG_TOOL_AVAILABLE,
                  PDF2IMAGE_AVAILABLE, PYTESSERACT_AVAILABLE, GENAI_AVAILABLE, EMBED_MODEL,
                  GEMINI_API_KEY>>

(* ------------------------------------------------------------------ *)
(* Signal extractors                                                   *)
(* ------------------------------------------------------------------ *)

\* len(text.split()): the words of the first n tokens.  A token that follows another
\* without whitespace between them belongs to the same word.
RECURSIVE WordsUpTo(_, _)
WordsUpTo(text, n) ==
    IF n = 0 THEN 0
    ELSE WordsUpTo(text, n - 1)
         + (IF text[n] \in Whitespace THEN 0
            ELSE IF n = 1 \/ text[n - 1] \in Whitespace THEN WordsIn(text[n])
            ELSE WordsIn(text[n]) - 1)

WordCount(text) == WordsUpTo(text, Len(text))

\* A run of letters that is the action verb only when it is one whole token: no two
\* tokens of the vocabulary concatenate to an action verb.
count_action_verbs(text) ==
    Cardinality({i \in 1..Len(text) :
        /\ IsAlpha(text[i])
        /\ (i = 1 \/ ~EndsWithWordChar(text[i - 1]))
        /\ (i = Len(text) \/ ~StartsWithWordChar(text[i + 1]))
        /\ Lower(text[i]) \in ACTION_VERBS})

\* sec.lower() in text.lower()
SectionFound(sec, text) ==
    \E i \in 1..Len(text) : SubstringOf(Lower(sec), Lower(text[i]))

detect_missing_sections(text) ==
    SelectSeq(REQUIRED_SECTIONS, LAMBDA sec : ~SectionFound(sec, text))

\* m.message[:200] and matches[:10]
MessageLimit == 200
SampleLimit == 10

\* What the LanguageTool server does with one request: it fails (unreachable, or any
\* exception while checking), or it answers with n matches.
GrammarMatch ==
    [ruleId |-> "MORFOLOGIK_RULE_EN_US", message |-> <<"Possible spelling mistake found.">>]
GrammarOutcomes ==
    {[raises |-> TRUE, matches |-> <<>>]}
    \cup {[raises |-> FALSE, matches |-> [i \in 1..n |-> GrammarMatch]] : n \in 0..MaxGrammarMatches}

grammar_check(text, served) ==
    IF ~LANG_TOOL_AVAILABLE
    THEN [errors_count |-> -1, error |-> <<"language_tool_python not installed">>,
          sample_errors |-> <<>>]
    ELSE IF served.raises
    THEN [errors_count |-> -1, error |-> <<"Connection refused">>, sample_errors |-> <<>>]
    ELSE [errors_count |-> Len(served.matches),
          sample_errors |->
              [i \in 1..Min(SampleLimit, Len(served.matches)) |->
                  <<served.matches[i].ruleId, " | ">>
                  \o SubSeq(served.matches[i].message, 1,
                            Min(MessageLimit, Len(served.matches[i].message)))]]

\* {w.lower() for w in re.findall(r'\b[A-Za-z0-9\+\#\-\_]+\b', job_text) if len(w) > 2}
MinKeywordLen == 2
JobKeywords(job_text) ==
    {Lower(job_text[i]) : i \in {j \in 1..Len(job_text) :
        IsKeywordToken(job_text[j]) /\ Len(job_text[j]) > MinKeywordLen}}

\* k in resume_text.lower()
KeywordPresent(k, text) == \E i \in 1..Len(text) : SubstringOf(k, Lower(text[i]))

\* Percentages are kept as whole numbers: float(present) / len(job_keywords) * 100
\* rounded down, which compares with the integer threshold 50 exactly as the float does.
\* Similarities are kept in hundredths: -100 is the sentinel -1.0.
KeywordCoveragePercent(text, job_text) ==
    IF JobKeywords(job_text) # {}
    THEN (Cardinality({k \in JobKeywords(job_text) : KeywordPresent(k, text)}) * 100)
            \div Cardinality(JobKeywords(job_text))
    ELSE 0

\* What the embedding model does with one request: encode or cos_sim raises, or the
\* similarity it computes.
EmbedOutcomes == {[raises |-> TRUE, sim |-> 0], [raises |-> FALSE, sim |-> 87]}

compute_keyword_match(text, job_text, embed_model, served) ==
    IF embed_model = None
    THEN [semantic_similarity |-> -100, keyword_coverage_percent |-> 0,
          error |-> <<"Embedding model not loaded.">>]
    ELSE IF served.raises
    THEN [semantic_similarity |-> -100, keyword_coverage_percent |-> 0,
          error |-> <<"encode failed">>]
    ELSE [semantic_similarity |-> served.sim,
          keyword_coverage_percent |-> KeywordCoveragePercent(text, job_text),
          job_keyword_count |-> Cardinality(JobKeywords(job_text))]

(* ------------------------------------------------------------------ *)
(* Extraction backends                                                 *)
(*                                                                     *)
(* A file is [name, suffix, parts, layer]: parts are the texts of its  *)
(* pages (PDF), of its paragraphs (DOCX) or of its lines (TXT); layer  *)
(* says whether a PDF carries a text layer.  Every backend returns     *)
(* [value, raised, calls]: the returned text, the message of the       *)
(* exception it raised (<<>> when none) and the library calls it made. *)
(* ------------------------------------------------------------------ *)

\* What the document libraries do with one file: pdfplumber raises after reading
\* `plumber` pages (-1: it does not raise), the OCR chain raises, docx.Document raises.
ExtractOutcomes(file) ==
    [plumber : -1..Len(file.parts), ocr_raises : BOOLEAN, docx_raises : BOOLEAN]

\* page.extract_text() for page i
PageText(file, i) == IF file.layer THEN file.parts[i] ELSE <<>>

\* How many pages pdfplumber read before it raised, or all of them.
PagesRead(file, served) ==
    IF served.plumber = -1 THEN Len(file.parts) ELSE served.plumber

\* The page texts appended to text_parts (line 108 keeps the non-empty ones).
PlumberParts(file, served) ==
    NonEmptyParts([i \in 1..PagesRead(file, served) |-> PageText(file, i)])

\* The calls of the text-layer stage: pdfplumber.open, then one extract_text per page read.
PlumberCalls(file, served) ==
    IF PDFPLUMBER_AVAILABLE
    THEN <<"pdfplumber.open">>
         \o [i \in 1..PagesRead(file, served) |-> "page.extract_text"]
    ELSE <<>>

\* extract_text_from_pdf without the except clause of the OCR stage.
extract_text_from_pdf_ocr_uncaught(file, served) ==
    LET text_parts == IF PDFPLUMBER_AVAILABLE THEN PlumberParts(file, served) ELSE <<>>
        text == Join(<<"\n">>, text_parts)
        first == PlumberCalls(file, served)
    IN  IF Strip(text) # <<>>
        THEN [value |-> text, raised |-> <<>>, calls |-> first]
        ELSE IF PDF2IMAGE_AVAILABLE /\ PYTESSERACT_AVAILABLE
        THEN [value |-> IF served.ocr_raises THEN <<>>
                        ELSE Join(<<"\n">>, NonBlankParts(file.parts)),
              raised |-> IF served.ocr_raises THEN <<"Unable to get page count.">>
                         ELSE <<>>,
              calls |-> first \o <<"convert_from_path">>]
        ELSE [value |-> <<>>, raised |-> <<>>, calls |-> first]

extract_text_from_pdf(file, served) ==
    LET text_parts == IF PDFPLUMBER_AVAILABLE THEN PlumberParts(file, served) ELSE <<>>
        text == Join(<<"\n">>, text_parts)
        first == PlumberCalls(file, served)
    IN  IF Strip(text) # <<>>
        THEN [value |-> text, raised |-> <<>>, calls |-> first]
        ELSE IF PDF2IMAGE_AVAILABLE /\ PYTESSERACT_AVAILABLE
        THEN [value |-> IF served.ocr_raises THEN <<>>
                        ELSE Join(<<"\n">>, NonBlankParts(file.parts)),
              raised |-> <<>>,
              calls |-> first \o <<"convert_from_path">>]
        ELSE [value |-> <<>>, raised |-> <<>>, calls |-> first]

extract_text_from_docx(file, served) ==
    IF ~DOCX_AVAILABLE
    THEN [value |-> <<>>,
          raised |-> <<"python-docx is not installed; unable to extract .docx files">>,
          calls |-> <<>>]
    ELSE IF served.docx_raises
    THEN [value |-> <<>>, raised |-> <<"Package not found">>, calls |-> <<"docx.Document">>]
    ELSE [value |-> Join(<<"\n">>, NonBlankParts(file.parts)), raised |-> <<>>,
          calls |-> <<"docx.Document">>]

extract_text_from_txt(file, served) ==
    [value |-> Join(<<"\n">>, file.parts), raised |-> <<>>, calls |-> <<"open">>]

extract_text(file, served) ==
    LET path == Lower(file.suffix)
    IN  IF path = ".pdf" THEN extract_text_from_pdf(file, served)
        ELSE IF path = ".docx" THEN extract_text_from_docx(file, served)
        ELSE IF path = ".txt" THEN extract_text_from_txt(file, served)
        ELSE [value |-> <<>>, raised |-> <<"Unsupported file type for ", file.name>>,
              calls |-> <<>>]

(* ------------------------------------------------------------------ *)
(* Feedback                                                            *)
(* ------------------------------------------------------------------ *)

MinActionVerbs == 5
MinWordCount == 250
MinCoveragePercent == 50
MinBullets == 5

\* First position at or after p that holds no whitespace (Len(text) + 1 if none).
RECURSIVE SkipWhitespace(_, _)
SkipWhitespace(text, p) ==
    IF p <= Len(text) /\ text[p] \in Whitespace THEN SkipWhitespace(text, p + 1) ELSE p

\* len(re.findall(r'^\s*[-U+2022\*]\s+', text, flags=re.MULTILINE)), scanning from p.
RECURSIVE BulletsFrom(_, _)
BulletsFrom(text, p) ==
    IF p > Len(text) THEN 0
    ELSE LET q == SkipWhitespace(text, p)
         IN  IF /\ (p = 1 \/ text[p - 1] = "\n")
                /\ q < Len(text)
                /\ text[q] \in BulletChars
                /\ text[q + 1] \in Whitespace
             THEN 1 + BulletsFrom(text, SkipWhitespace(text, q + 1))
             ELSE BulletsFrom(text, p + 1)

CountBullets(text) == BulletsFrom(text, 1)

AchievementsSuggestion ==
    <<"Add measurable achievements: for each role, include 1-2 quantifiable outcomes (e.g., 'reduced cost by 20%').">>
SectionsSuggestion(missing) ==
    <<"Add or clearly label these sections: ">>
    \o Join(<<", ">>, [i \in 1..Len(missing) |-> <<missing[i]>>])
    \o <<". Recruiters look for Skills and Experience upfront.">>
GrammarSuggestion(n) ==
    <<"Fix grammar & typos (", ToString(n), " issues found). Use consistent tense and bullet punctuation.">>
ImproveKeywordsSuggestion ==
    <<"Improve keyword alignment with the job description: include important technologies and terms used in the JD.">>
GoodKeywordsSuggestion ==
    <<"Good job on keyword coverage vs the job description - ensure those keywords appear in context (achievements, not just skills list).">>
BulletsSuggestion ==
    <<"Use concise bullet points for responsibilities and achievements (3-6 bullets per role).">>
SummarySuggestion ==
    <<"Start with a short (2-3 sentences) professional summary that highlights your role, experience, and top skills.">>

EmptyDict == [k \in {} |-> 0]

\* The grammar test written as errors_count != 0.
HasGrammarErrors_nonzero(ge) == Get(ge, "errors_count", 0) # 0

\* ge.get("errors_count", 0) > 0
HasGrammarErrors(ge) == Get(ge, "errors_count", 0) > 0

\* The suggestions list of generate_feedback_fallback, before numbering.
Suggestions(text, record, job_text) ==
    LET missing == Get(record, "missing_sections", <<>>)
        ge == Get(record, "grammar", EmptyDict)
        km == Get(record, "keyword_match", EmptyDict)
    IN  (IF Get(record, "action_verbs", 0) < MinActionVerbs
            \/ Get(record, "word_count", 0) < MinWordCount
         THEN <<AchievementsSuggestion>> ELSE <<>>)
        \o (IF missing # <<>> THEN <<SectionsSuggestion(missing)>> ELSE <<>>)
        \o (IF HasGrammarErrors(ge)
            THEN <<GrammarSuggestion(Get(ge, "errors_count", 0))>> ELSE <<>>)
        \o (IF job_text # <<>> /\ DOMAIN km # {}
            THEN IF Get(km, "keyword_coverage_percent", 0) < MinCoveragePercent
                 THEN <<ImproveKeywordsSuggestion>>
                 ELSE <<GoodKeywordsSuggestion>>
            ELSE <<>>)
        \o (IF CountBullets(text) < MinBullets THEN <<BulletsSuggestion>> ELSE <<>>)
        \o <<SummarySuggestion>>

\* The numbering written as f"{i}. {s}": it starts at 0.
Numbered_from_zero(suggestions) ==
    Join(<<"\n\n">>,
         [i \in 1..Len(suggestions) |-> <<ToString(i - 1), ". ">> \o suggestions[i]])

\* "\n\n".join(f"{i+1}. {s}" for i, s in enumerate(suggestions))
Numbered(suggestions) ==
    Join(<<"\n\n">>, [i \in 1..Len(suggestions) |-> <<ToString(i), ". ">> \o suggestions[i]])

generate_feedback_fallback(text, record, job_text) ==
    Numbered(Suggestions(text, record, job_text))

\* What the generative service does with the one request: the client raises, or the
\* response carries no text (resp.text is None), or it carries this text.
GenaiOutcomes ==
    {[raises |-> TRUE, has_text |-> FALSE, text |-> <<>>],
     [raises |-> FALSE, has_text |-> FALSE, text |-> <<>>],
     [raises |-> FALSE, has_text |-> TRUE, text |-> <<"\n">>],
     [raises |-> FALSE, has_text |-> TRUE,
      text |-> <<" ", "1. ", "Quantify the results of each role.", "\n">>]}

LibraryNotice == <<"Gemini client library not installed; using fallback suggestions:", "\n\n">>
FailureNotice(e) == <<"Gemini request failed: ">> \o e \o <<"\n\n", "Fallback suggestions:", "\n">>

\* generate_feedback_genai without its try/except: a failed request leaves the function
\* as an exception.
generate_feedback_genai_uncaught(text, record, genai_api_key, job_text, served) ==
    IF ~GENAI_AVAILABLE
    THEN [value |-> LibraryNotice \o generate_feedback_fallback(text, record, job_text),
          calls |-> <<"generate_feedback_fallback">>]
    ELSE IF served.raises \/ ~served.has_text
    THEN [value |-> <<>>, calls |-> <<"generate_content">>, raised |-> <<"503 UNAVAILABLE">>]
    ELSE [value |-> Strip(served.text), calls |-> <<"generate_content">>]

\* generate_feedback_genai whose except branch reports the failure and stops there.
generate_feedback_genai_notice_only(text, record, genai_api_key, job_text, served) ==
    IF ~GENAI_AVAILABLE
    THEN [value |-> LibraryNotice \o generate_feedback_fallback(text, record, job_text),
          calls |-> <<"generate_feedback_fallback">>]
    ELSE IF served.raises \/ ~served.has_text
    THEN [value |-> FailureNotice(<<"503 UNAVAILABLE">>),
          calls |-> <<"generate_content", "generate_feedback_fallback">>]
    ELSE [value |-> Strip(served.text), calls |-> <<"generate_content">>]

\* Returns [value, calls]: the feedback and the calls made to produce it; a result with
\* a field `raised` is an exception leaving the function.
generate_feedback_genai(text, record, genai_api_key, job_text, served) ==
    IF ~GENAI_AVAILABLE
    THEN [value |-> LibraryNotice \o generate_feedback_fallback(text, record, job_text),
          calls |-> <<"generate_feedback_fallback">>]
    ELSE IF served.raises
    THEN [value |-> FailureNotice(<<"503 UNAVAILABLE">>)
                    \o generate_feedback_fallback(text, record, job_text),
          calls |-> <<"generate_content", "generate_feedback_fallback">>]
    ELSE IF ~served.has_text
    THEN [value |-> FailureNotice(<<"'NoneType' object has no attribute 'strip'">>)
                    \o generate_feedback_fallback(text, record, job_text),
          calls |-> <<"generate_content", "generate_feedback_fallback">>]
    ELSE [value |-> Strip(served.text), calls |-> <<"generate_content">>]

(* ------------------------------------------------------------------ *)
(* Uploaded documents and job descriptions                             *)
(* ------------------------------------------------------------------ *)

EmptyDoc == <<>>

BlankDoc == << <<" ", "\t">>, <<NUL>> >>

ShortDoc ==
    << <<"Skills", " ", "python", " ", "javascript">>,
       <<"-", " ", "Led", " ", "team">> >>

BulletDoc ==
    << <<"-", " ", "led", " ", "team">>,
       <<"*", " ", "built", " ", "python">>,
       <<"U+2022", " ", "reduced", " ", "sql">>,
       <<"-", " ", "Skills">>,
       <<"-", " ", "Education">>,
       <<"Summary">> >>

\* 300 words, 6 action verbs, every required section but Projects.
LongDoc ==
    << <<"+91", " ", "Summary", " ", "Skills", " ", "Experience", " ", "Education", " ",
         "LinkedIn">>,
       <<"Achieved", " ", "improved", " ", "managed", " ", "led", " ", "created", " ",
         "designed">>,
       <<"python", " ", "django", " ", "sql", " ", "kubernetes">>,
       <<Filler>> >>

File(name, suffix, parts, layer) ==
    [name |-> name, suffix |-> suffix, parts |-> parts, layer |-> layer]

UploadedFiles ==
    {File("empty.pdf", ".pdf", EmptyDoc, TRUE),
     File("blank.pdf", ".pdf", BlankDoc, TRUE),
     File("scan.PDF", ".PDF", ShortDoc, FALSE),
     File("resume.pdf", ".pdf", BulletDoc, TRUE),
     File("blank.docx", ".docx", BlankDoc, FALSE),
     File("resume.docx", ".docx", ShortDoc, FALSE),
     File("empty.txt", ".txt", EmptyDoc, FALSE),
     File("blank.txt", ".txt", BlankDoc, FALSE),
     File("resume.txt", ".txt", LongDoc, FALSE),
     File("resume.rtf", ".rtf", ShortDoc, FALSE)}

\* ShortDoc, BulletDoc and LongDoc hold 1, 2 and 4 of the 5 keywords of the first
\* description; the second has the keywords rust and java ("go" is too short).
JobDescriptions ==
    {<<>>,
     <<"Python", " ", "django", " ", "SQL", " ", "kubernetes", "\n", "rust">>,
     <<"rust", " ", "java", " ", "go">>}

\* A file left in the media directory by earlier use of the site.
StoredBefore == File("resume.pdf", ".pdf", ShortDoc, TRUE)

(* ------------------------------------------------------------------ *)
(* default_storage                                                     *)
(* ------------------------------------------------------------------ *)

Exists(store, name) == \E f \in store : f.name = name

\* Storage.get_available_name: a taken name gets a random suffix before the extension.
AvailableName(store, name) ==
    IF Exists(store, name) THEN "resume_x7Gk2Qa.pdf" ELSE name

Delete(store, name) == {f \in store : f.name # name}

\* The file at default_storage.path(name).
FileAt(store, name) == CHOOSE f \in store : f.name = name

(* ------------------------------------------------------------------ *)
(* Initial state                                                       *)
(* ------------------------------------------------------------------ *)

NoResponse == [kind |-> "none", feedback |-> <<>>]

\* The locals of a request that is not being served.
NoRequest ==
    /\ file_name' = None
    /\ job_desc' = <<>>
    /\ feedback' = <<>>
    /\ resume_text' = <<>>
    /\ analysis' = EmptyDict
    /\ result' = <<>>
    /\ raised' = None
    /\ trace' = <<>>
    /\ faults' = {}

Init ==
    /\ PDFPLUMBER_AVAILABLE \in BOOLEAN
    /\ DOCX_AVAILABLE \in BOOLEAN
    /\ LANG_TOOL_AVAILABLE \in BOOLEAN
    /\ PDF2IMAGE_AVAILABLE \in BOOLEAN
    /\ PYTESSERACT_AVAILABLE \in BOOLEAN
    /\ GENAI_AVAILABLE \in BOOLEAN
    /\ EMBED_MODEL \in {None, "all-MiniLM-L6-v2"}
    /\ GEMINI_API_KEY \in {None, "", "AIza-key"}
    /\ storage = {StoredBefore}
    /\ pc = "idle"
    /\ file_name = None
    /\ job_desc = <<>>
    /\ feedback = <<>>
    /\ resume_text = <<>>
    /\ analysis = EmptyDict
    /\ result = <<>>
    /\ raised = None
    /\ trace = <<>>
    /\ faults = {}
    /\ response = NoResponse

(* ------------------------------------------------------------------ *)
(* upload_resume_view, up to the call of analyze_resume                *)
(* ------------------------------------------------------------------ *)

\* A GET, or a POST whose form is not valid: the view falls off its end.
UploadNotValid ==
    /\ pc = "idle"
    /\ response' = [kind |-> "None", feedback |-> <<>>]
    /\ UNCHANGED <<capabilities, storage, pc, file_name, job_desc, feedback, resume_text,
                   analysis, result, raised, trace, faults>>

\* A valid POST: the upload is saved and analyze_resume is about to be called.
UploadPost ==
    /\ pc = "idle"
    /\ \E uploaded_file \in UploadedFiles, jd \in JobDescriptions :
          LET name == AvailableName(storage, uploaded_file.name)
          IN  /\ file_name' = name
              /\ storage' = storage \cup {[uploaded_file EXCEPT !.name = name]}
              /\ job_desc' = jd
    /\ feedback' = <<>>
    /\ response' = NoResponse
    /\ pc' = "call"
    /\ UNCHANGED <<capabilities, resume_text, analysis, result, raised, trace, faults>>

(* ------------------------------------------------------------------ *)
(* analyze_resume                                                      *)
(* ------------------------------------------------------------------ *)

\* The value a call hands back is an exception that left it.
IsException(d) == "exception" \in DOMAIN d \/ "raised" \in DOMAIN d

ConfigurationErrorText == <<"Error:", " GEMINI_API_KEY not configured in Django settings.">>
EmptyExtractionErrorText == <<"Error:", " Could not extract any text from the resume.">>
ExtractionErrorText(e) == <<"Error during text extraction: ">> \o e

\* The credential test written as `api_key is None`.
KeyMissing_is_none(api_key) == api_key = None

\* `not api_key`
KeyMissing(api_key) == api_key = None \/ api_key = ""

\* Step 1: the credential.
AnalyzeCheckKey ==
    /\ pc = "call"
    /\ IF KeyMissing(GEMINI_API_KEY)
       THEN /\ result' = ConfigurationErrorText
            /\ pc' = "return"
       ELSE /\ result' = result
            /\ pc' = "extract"
    /\ UNCHANGED <<capabilities, storage, file_name, job_desc, feedback, resume_text,
                   analysis, raised, trace, faults, response>>

\* The library calls of an extraction in which the library raised.
ExtractFaults(served, calls) ==
    {c \in {"pdfplumber.open", "convert_from_path", "docx.Document"} :
        /\ \E i \in 1..Len(calls) : calls[i] = c
        /\ \/ c = "pdfplumber.open" /\ served.plumber # -1
           \/ c = "convert_from_path" /\ served.ocr_raises
           \/ c = "docx.Document" /\ served.docx_raises}

\* Step 2: extract_text, clean_text and the blank test, inside the try block.
AnalyzeExtract ==
    /\ pc = "extract"
    /\ \E served \in ExtractOutcomes(FileAt(storage, file_name)) :
          LET got == extract_text(FileAt(storage, file_name), served)
              text == clean_text(got.value)
          IN  /\ trace' = trace \o got.calls
              /\ faults' = faults \cup ExtractFaults(served, got.calls)
              /\ IF got.raised # <<>>
                 THEN /\ result' = ExtractionErrorText(got.raised)
                      /\ resume_text' = resume_text
                      /\ pc' = "return"
                 ELSE IF text = <<>>
                 THEN /\ result' = EmptyExtractionErrorText
                      /\ resume_text' = text
                      /\ pc' = "return"
                 ELSE /\ result' = result
                      /\ resume_text' = text
                      /\ pc' = "analysis"
    /\ UNCHANGED <<capabilities, storage, file_name, job_desc, feedback, analysis, raised,
                   response>>

\* Step 3: the analysis record.  An exception leaving an extractor leaves analyze_resume.
AnalyzeSignals ==
    /\ pc = "analysis"
    /\ \E g \in GrammarOutcomes, e \in EmbedOutcomes :
          LET grammar == grammar_check(resume_text, g)
              keyword_match == compute_keyword_match(resume_text, job_desc, EMBED_MODEL, e)
          IN  /\ trace' = trace \o <<"count_action_verbs", "detect_missing_sections",
                                     "grammar_check", "compute_keyword_match">>
              /\ faults' = faults
                    \cup (IF LANG_TOOL_AVAILABLE /\ g.raises THEN {"grammar_check"} ELSE {})
                    \cup (IF EMBED_MODEL # None /\ e.raises
                          THEN {"compute_keyword_match"} ELSE {})
              /\ IF IsException(grammar) \/ IsException(keyword_match)
                 THEN /\ analysis' = analysis
                      /\ raised' = "Exception"
                      /\ pc' = "except"
                 ELSE /\ analysis' = [word_count |-> WordCount(resume_text),
                                      action_verbs |-> count_action_verbs(resume_text),
                                      missing_sections |-> detect_missing_sections(resume_text),
                                      grammar |-> grammar,
                                      keyword_match |-> keyword_match]
                      /\ raised' = raised
                      /\ pc' = "feedback"
    /\ UNCHANGED <<capabilities, storage, file_name, job_desc, feedback, resume_text, result,
                   response>>

\* Steps 4 and 5: the feedback, returned.
AnalyzeFeedback ==
    /\ pc = "feedback"
    /\ \E served \in GenaiOutcomes :
          LET got == generate_feedback_genai(resume_text, analysis, GEMINI_API_KEY,
                                             job_desc, served)
          IN  /\ trace' = trace \o got.calls
              /\ faults' = faults
                    \cup (IF GENAI_AVAILABLE /\ (served.raises \/ ~served.has_text)
                          THEN {"generate_content"} ELSE {})
              /\ IF IsException(got)
                 THEN /\ result' = result
                      /\ raised' = "Exception"
                      /\ pc' = "except"
                 ELSE /\ result' = got.value
                      /\ raised' = raised
                      /\ pc' = "return"
    /\ UNCHANGED <<capabilities, storage, file_name, job_desc, feedback, resume_text,
                   analysis, response>>

\* An exception from outside the steps above (MemoryError, KeyboardInterrupt, ...)
\* ends the call before the pipeline starts.
AnalyzeInterrupted ==
    /\ pc = "call"
    /\ raised' \in {"Exception", "BaseException"}
    /\ faults' = faults \cup {"analyze_resume"}
    /\ pc' = "except"
    /\ UNCHANGED <<capabilities, storage, file_name, job_desc, feedback, resume_text,
                   analysis, result, trace, response>>

(* ------------------------------------------------------------------ *)
(* upload_resume_view, after the call                                  *)
(* ------------------------------------------------------------------ *)

\* feedback = analyze_resume(file_path, job_desc)
ViewReturn ==
    /\ pc = "return"
    /\ feedback' = result
    /\ pc' = "finally"
    /\ UNCHANGED <<capabilities, storage, file_name, job_desc, resume_text, analysis, result,
                   raised, trace, faults, response>>

\* except Exception as e: a BaseException passes the handler by.
ViewExcept ==
    /\ pc = "except"
    /\ IF raised = "Exception"
       THEN /\ feedback' = <<"An unexpected error occurred: ", "e">>
            /\ raised' = None
       ELSE UNCHANGED <<feedback, raised>>
    /\ pc' = "finally"
    /\ UNCHANGED <<capabilities, storage, file_name, job_desc, resume_text, analysis, result,
                   trace, faults, response>>

\* The deletion written after the call inside the try block: it runs only when
\* analyze_resume returned.
ViewFinally_after_call ==
    /\ pc = "finally"
    /\ storage' = IF Exists(storage, file_name) /\ raised = None /\ feedback = result
                  THEN Delete(storage, file_name) ELSE storage
    /\ pc' = "render"
    /\ UNCHANGED <<capabilities, file_name, job_desc, feedback, resume_text, analysis,
                   result, raised, trace, faults, response>>

\* finally: if default_storage.exists(file_name): default_storage.delete(file_name)
ViewFinally ==
    /\ pc = "finally"
    /\ storage' = IF Exists(storage, file_name) THEN Delete(storage, file_name) ELSE storage
    /\ pc' = "render"
    /\ UNCHANGED <<capabilities, file_name, job_desc, feedback, resume_text, analysis,
                   result, raised, trace, faults, response>>

\* return render(request, 'analyze', {'feedback': feedback}), or the pending exception
\* leaves the view.
ViewRender ==
    /\ pc = "render"
    /\ response' = IF raised = None
                   THEN [kind |-> "render", feedback |-> feedback]
                   ELSE [kind |-> "exception", feedback |-> <<>>]
    /\ pc' = "idle"
    /\ NoRequest
    /\ UNCHANGED <<capabilities, storage>>

Next ==
    \/ UploadNotValid
    \/ UploadPost
    \/ AnalyzeCheckKey
    \/ AnalyzeExtract
    \/ AnalyzeSignals
    \/ AnalyzeFeedback
    \/ AnalyzeInterrupted
    \/ ViewReturn
    \/ ViewExcept
    \/ ViewFinally
    \/ ViewRender

Spec == Init /\ [][Next]_vars

(* ------------------------------------------------------------------ *)
(* Properties                                                          *)
(* ------------------------------------------------------------------ *)

\* analyze_resume has returned to the view.
Returned == pc = "return"

\* settings holds no generative credential: it is unset or empty.
CredentialAbsent == GEMINI_API_KEY \in {None, ""}

\* The run built its analysis record, so it got past text extraction.
ReachedAnalysis == DOMAIN analysis # {}

\* The uploaded file of the request being served.
CurrentFile == FileAt(storage, file_name)

SupportedSuffix(f) == Lower(f.suffix) \in {".pdf", ".docx", ".txt"}

ExtractionCalls ==
    {"pdfplumber.open", "page.extract_text", "convert_from_path", "docx.Document", "open"}
SignalCalls ==
    {"count_action_verbs", "detect_missing_sections", "grammar_check", "compute_keyword_match"}
FeedbackCalls == {"generate_content", "generate_feedback_fallback"}

Called(names) == \E i \in 1..Len(trace) : trace[i] \in names

TimesCalled(name) == Cardinality({i \in 1..Len(trace) : trace[i] = name})

\* C1: every configuration or extraction failure of analyze_resume (a run that returns
\* before the analysis stage) returns a string that begins with "Error:".
C1_FailuresBeginWithErrorPrefix ==
    (Returned /\ ~ReachedAnalysis) => StartsWith(result, "Error:")

\* C2: once analyze_resume holds non-blank normalized text, the run is in the analysis
\* stage, the feedback stage or past its return; no exception is in flight; and what it returned came from a feedback strategy and
\* is no error result, whatever the grammar service, the embedding model,
\* the generative library and the generative request do.
C2_PipelineCompletesAfterExtraction ==
    resume_text # <<>> =>
        /\ pc \in {"analysis", "feedback", "return", "finally", "render"}
        /\ raised = None
        /\ pc \in {"return", "finally", "render"} =>
              /\ ReachedAnalysis
              /\ Called(FeedbackCalls)
              /\ ~StartsWith(result, "Error:")
              /\ ~StartsWith(result, "Error during text extraction: ")

\* A run returned feedback although the grammar service, the embedding model and the
\* generative request all failed.
C2_Witness ==
    /\ Returned
    /\ ReachedAnalysis
    /\ faults = {"grammar_check", "compute_keyword_match", "generate_content"}

\* C3: whenever analyze_resume reaches the feedback stage, the string it returns is
\* not empty.
C3_FeedbackNeverEmpty ==
    (Returned /\ ReachedAnalysis) => result # <<>>

\* C4: with the credential absent no extraction backend, signal extractor or generative
\* call is made, the pipeline stages are never entered and the run returns the
\* configuration error, whatever the file.
C4_NoWorkWithoutCredential ==
    CredentialAbsent =>
        /\ trace = <<>>
        /\ ~Called(ExtractionCalls \cup SignalCalls \cup FeedbackCalls)
        /\ pc \notin {"extract", "analysis", "feedback"}
        /\ Returned => result = ConfigurationErrorText

\* The credential is the empty string, the upload is a PDF with a text layer, and the
\* run has returned.
C4_Witness ==
    /\ GEMINI_API_KEY = ""
    /\ Returned
    /\ CurrentFile.name = "resume_x7Gk2Qa.pdf"
    /\ result = ConfigurationErrorText

\* The file holds nothing but whitespace and NUL bytes.
IsBlankDocument(f) ==
    \A i \in 1..Len(f.parts) : \A j \in 1..Len(f.parts[i]) :
        f.parts[i][j] \in Whitespace \cup {NUL}

\* The run is past the credential test and the text extraction of a blank document in
\* a supported format, and the view has not deleted the file yet.
ExtractedBlankDocument ==
    /\ ~CredentialAbsent
    /\ pc \in {"analysis", "feedback", "except", "return", "finally"}
    /\ "analyze_resume" \notin faults
    /\ SupportedSuffix(CurrentFile)
    /\ IsBlankDocument(CurrentFile)

\* The DOCX backend is missing or docx.Document raised on the file.
DocxBackendFailed ==
    /\ Lower(CurrentFile.suffix) = ".docx"
    /\ ~DOCX_AVAILABLE \/ "docx.Document" \in faults

\* C5 as stated: for each supported format a run on an empty or blank document ends in
\* the empty-extraction error result, never in an exception or another error, and no
\* signal extractor or feedback strategy runs.
C5_BlankDocumentAbortsEmpty ==
    ExtractedBlankDocument =>
        /\ pc \in {"return", "finally"}
        /\ raised = None
        /\ result = EmptyExtractionErrorText
        /\ ~Called(SignalCalls \cup FeedbackCalls)

\* C5 amended: a run with the credential configured on an empty or blank document ends
\* in the empty-extraction error result for .pdf and .txt, and for .docx when the DOCX
\* backend is available and opens the file; when the DOCX backend is missing or raises
\* on the file the run ends in the "Error during text extraction" result.  In every
\* case no exception reaches the caller and no signal extractor or feedback strategy
\* runs.
C5_BlankDocumentAbortsEmptyUnlessDocxFails ==
    ExtractedBlankDocument =>
        /\ pc \in {"return", "finally"}
        /\ raised = None
        /\ ~Called(SignalCalls \cup FeedbackCalls)
        /\ IF DocxBackendFailed
           THEN StartsWith(result, "Error during text extraction: ")
           ELSE result = EmptyExtractionErrorText

\* A blank .docx whose only non-empty paragraph text is a NUL byte was opened by the
\* DOCX backend and the run returned the empty-extraction error.
C5_Witness ==
    /\ Returned
    /\ ExtractedBlankDocument
    /\ CurrentFile.name = "blank.docx"
    /\ trace = <<"docx.Document">>
    /\ result = EmptyExtractionErrorText

HasFallbackNotice(s) ==
    \/ Contains(s, "Gemini client library not installed; using fallback suggestions:")
    \/ Contains(s, "Gemini request failed: ") /\ Contains(s, "Fallback suggestions:")

EndsWith(s, t) == Len(t) <= Len(s) /\ SubSeq(s, Len(s) - Len(t) + 1, Len(s)) = t

\* The generative strategy was not used successfully in this run.
GenerativeNotUsed == ~GENAI_AVAILABLE \/ "generate_content" \in faults

\* C6: the generative request is made at most once per run, and whenever the library is
\* absent or the request raised, the returned feedback carries a fallback notice
\* followed by the whole deterministic list for the run's resume text, analysis record
\* and job description.
C6_FallbackNoticeAndList ==
    /\ TimesCalled("generate_content") <= 1
    /\ (Returned /\ ReachedAnalysis /\ GenerativeNotUsed) =>
          /\ HasFallbackNotice(result)
          /\ ~StartsWith(result, "1")
          /\ EndsWith(result, generate_feedback_fallback(resume_text, analysis, job_desc))

\* The one generative request of a run with a job description raised, and the run
\* returned.
C6_Witness ==
    /\ Returned
    /\ GENAI_AVAILABLE
    /\ "generate_content" \in faults
    /\ TimesCalled("generate_content") = 1
    /\ job_desc # <<>>

\* C7: the analysis record always has its five top-level keys, the grammar sub-record
\* its keys errors_count and sample_errors, and the keyword_match sub-record its keys
\* semantic_similarity, keyword_coverage_percent and job_keyword_count.
C7_RecordFullyPopulated ==
    ReachedAnalysis =>
        /\ {"word_count", "action_verbs", "missing_sections", "grammar", "keyword_match"}
              \subseteq DOMAIN analysis
        /\ {"errors_count", "sample_errors"} \subseteq DOMAIN analysis.grammar
        /\ {"semantic_similarity", "keyword_coverage_percent", "job_keyword_count"}
              \subseteq DOMAIN analysis.keyword_match

\* C8: when the deterministic strategy produced the feedback because the generative
\* library is absent, a supplied job description yields exactly one keyword suggestion,
\* chosen by the share of the description's keywords that occur in the resume text
\* (praise at 50% or more, the advice to improve below 50%), and no job description
\* yields neither.
C8_KeywordSuggestionFollowsOverlap ==
    (Returned /\ ReachedAnalysis /\ ~GENAI_AVAILABLE) =>
        LET good == Contains(result, GoodKeywordsSuggestion[1])
            improve == Contains(result, ImproveKeywordsSuggestion[1])
            overlap == KeywordCoveragePercent(resume_text, job_desc)
        IN  IF job_desc = <<>>
            THEN ~good /\ ~improve
            ELSE IF overlap >= MinCoveragePercent
                 THEN good /\ ~improve
                 ELSE improve /\ ~good

\* The grammar check of this run was unavailable or failed.
GrammarCheckFailed == ~LANG_TOOL_AVAILABLE \/ "grammar_check" \in faults

\* C9: a grammar check that is unavailable or fails puts the sentinel (errors_count -1,
\* no sample errors, an error message) in the record and raises nothing; the run goes
\* on to return feedback; and deterministic feedback holds the "fix grammar" suggestion
\* exactly when errors_count > 0, so never for the sentinel.
C9_GrammarSentinel ==
    ReachedAnalysis =>
        /\ GrammarCheckFailed =>
              /\ analysis.grammar.errors_count = -1
              /\ analysis.grammar.sample_errors = <<>>
              /\ Get(analysis.grammar, "error", <<>>) # <<>>
        /\ ~GrammarCheckFailed => analysis.grammar.errors_count >= 0
        /\ raised = None
        /\ pc # "except"
        /\ Returned =>
              /\ Called(FeedbackCalls)
              /\ ~StartsWith(result, "Error:")
              /\ ~StartsWith(result, "Error during text extraction: ")
        /\ (Returned /\ Called({"generate_feedback_fallback"})) =>
              (Contains(result, "Fix grammar & typos (") <=> analysis.grammar.errors_count > 0)

\* The grammar server failed, the record holds the sentinel and the run returned
\* deterministic feedback.
C9_Witness ==
    /\ Returned
    /\ ReachedAnalysis
    /\ "grammar_check" \in faults
    /\ Called({"generate_feedback_fallback"})
    /\ analysis.grammar.errors_count = -1

\* C10: once the view is past its finally block the file it saved is gone from storage,
\* and when the view has finished storage holds what it held before the request,
\* whether analyze_resume returned feedback, returned an error string or raised.
C10_SavedFileDeleted ==
    /\ pc = "render" => ~Exists(storage, file_name)
    /\ pc = "idle" => storage = {StoredBefore}

\* A run in which analyze_resume raised is past the finally block.
C10_Witness ==
    /\ pc = "render"
    /\ "analyze_resume" \in faults
    /\ ~Exists(storage, file_name)

\* The lines of a document that start with a bullet marker.
BulletLines(f) ==
    Cardinality({i \in 1..Len(f.parts) :
                    /\ Len(f.parts[i]) >= 2
                    /\ f.parts[i][1] \in BulletChars
                    /\ f.parts[i][2] \in Whitespace})

\* The extractor read the whole document: no library call of the extraction stage raised.
ExtractedWhole == faults \cap ExtractionCalls = {}

\* C13: when the deterministic strategy runs inside analyze_resume, the "use concise
\* bullet points" suggestion is included exactly when the resume document has fewer than
\* 5 lines that start with a bullet marker; a resume with 5 or more bullet lines does not
\* receive it.
C13_BulletSuggestionFollowsBulletLines ==
    (Returned /\ ReachedAnalysis /\ ExtractedWhole
     /\ Called({"generate_feedback_fallback"})) =>
        (Contains(result, BulletsSuggestion[1]) <=> BulletLines(CurrentFile) < 5)

\* analyze_resume has run extract_text on a PDF upload (the file is still stored).
PdfExtracted ==
    /\ pc \in {"analysis", "feedback", "return"}
    /\ ~CredentialAbsent
    /\ Lower(CurrentFile.suffix) = ".pdf"

\* What the text-layer stage left in text: the non-empty texts of the pages it read.
TextLayerResult ==
    LET f == CurrentFile
    IN  Join(<<"\n">>,
             NonEmptyParts([i \in 1..TimesCalled("page.extract_text") |->
                               IF f.layer THEN f.parts[i] ELSE <<>>]))

TextLayerBlank == Strip(TextLayerResult) = <<>>

OcrAttempted == Called({"convert_from_path"})

OcrAvailable == PDF2IMAGE_AVAILABLE /\ PYTESSERACT_AVAILABLE

\* C14: extract_text_from_pdf follows a two-stage chain and never raises: OCR is
\* attempted only if the text-layer result is blank (text layer unavailable, failed or
\* without page text), never when the text layer produced non-blank text; if OCR is then
\* unavailable or raises, the function returns the empty string, which analyze_resume
\* turns into the empty-extraction error rather than a crash.
C14_PdfFallbackChain ==
    PdfExtracted =>
        /\ raised = None
        /\ ~(Returned /\ StartsWith(result, "Error during text extraction: "))
        /\ ~PDFPLUMBER_AVAILABLE => ~Called({"pdfplumber.open", "page.extract_text"})
        /\ OcrAttempted => (TextLayerBlank /\ OcrAvailable)
        /\ ~TextLayerBlank => ~OcrAttempted
        /\ (TextLayerBlank /\ (~OcrAvailable \/ "convert_from_path" \in faults)) =>
               (Returned /\ result = EmptyExtractionErrorText /\ ~Called(SignalCalls))

\* The text layer failed before any page text, then the OCR stage raised.
C14_Witness ==
    /\ PdfExtracted
    /\ faults = {"pdfplumber.open", "convert_from_path"}
    /\ ~IsBlankDocument(CurrentFile)
    /\ CurrentFile.layer
    /\ result = EmptyExtractionErrorText

(* ------------------------------------------------------------------ *)
(* clean_text on its own                                               *)
(* A second specification: the text is drawn from every sequence of up *)
(* to MaxTextLen characters and clean_text is applied to it, as line   *)
(* 292 of analyze_resume does with the extracted text.                 *)
(* ------------------------------------------------------------------ *)

MaxTextLen == 3

\* One letter, the three whitespace characters, NUL and one more C0 control character.
TextAlphabet == {"a", " ", "\n", "\t", NUL, SOH}

RawTexts == UNION {[1..n -> TextAlphabet] : n \in 0..MaxTextLen}

\* Every optional library imported, the embedding model loaded, the key configured.
FullInstallation ==
    /\ PDFPLUMBER_AVAILABLE = TRUE
    /\ DOCX_AVAILABLE = TRUE
    /\ LANG_TOOL_AVAILABLE = TRUE
    /\ PDF2IMAGE_AVAILABLE = TRUE
    /\ PYTESSERACT_AVAILABLE = TRUE
    /\ GENAI_AVAILABLE = TRUE
    /\ EMBED_MODEL = "all-MiniLM-L6-v2"
    /\ GEMINI_API_KEY = "AIza-key"

CleanInit ==
    /\ FullInstallation
    /\ storage = {StoredBefore}
    /\ pc = "extracted"
    /\ file_name = None
    /\ job_desc = <<>>
    /\ feedback = <<>>
    /\ resume_text \in RawTexts
    /\ analysis = EmptyDict
    /\ result = <<>>
    /\ raised = None
    /\ trace = <<>>
    /\ faults = {}
    /\ response = NoResponse

\* resume_text = clean_text(<the extracted text>)
CleanApply ==
    /\ pc = "extracted"
    /\ resume_text' = clean_text(resume_text)
    /\ trace' = Append(trace, "clean_text")
    /\ pc' = "cleaned"
    /\ UNCHANGED <<capabilities, storage, file_name, job_desc, feedback, analysis, result,
                   raised, faults, response>>

CleanNext == CleanApply

CleanSpec == CleanInit /\ [][CleanNext]_vars

\* The raw control characters of the alphabet: the C0 range, tab and newline included.
ControlChars == {NUL, SOH, "\n", "\t"}

\* C11: the output of clean_text contains no raw control character of any kind, no run
\* of two or more whitespace characters, and no leading or trailing whitespace.
C11_CleanTextNormalized ==
    pc = "cleaned" =>
        /\ \A i \in 1..Len(resume_text) : resume_text[i] \notin ControlChars
        /\ \A i \in 1..(Len(resume_text) - 1) :
               ~(resume_text[i] \in Whitespace /\ resume_text[i + 1] \in Whitespace)
        /\ resume_text = <<>> \/
               (resume_text[1] \notin Whitespace
                /\ resume_text[Len(resume_text)] \notin Whitespace)

(* ------------------------------------------------------------------ *)
(* generate_feedback_fallback on its own                               *)
(* A third specification: the analysis record, the resume text and the *)
(* job description are drawn from bounded sets and the function is     *)
(* applied to them.                                                    *)
(* ------------------------------------------------------------------ *)

\* Both sides of the two thresholds of line 254.
WordCounts == {249, 250}
VerbCounts == {4, 5}

MissingLists == {<<>>, <<"Projects">>, <<"Skills", "Education">>}

\* The shapes grammar_check returns: the sentinel, and 0..MaxGrammarMatches matches.
GrammarRecords ==
    {[errors_count |-> -1, error |-> <<"Connection refused">>, sample_errors |-> <<>>]}
    \cup {[errors_count |-> n,
           sample_errors |-> [i \in 1..n |-> <<"MORFOLOGIK_RULE_EN_US", " | ", "typo">>]] :
          n \in 0..MaxGrammarMatches}

\* The shapes compute_keyword_match returns, and the empty dict the .get default yields.
KeywordRecords ==
    {EmptyDict,
     [semantic_similarity |-> -100, keyword_coverage_percent |-> 0,
      error |-> <<"Embedding model not loaded.">>]}
    \cup {[semantic_similarity |-> 87, keyword_coverage_percent |-> c,
           job_keyword_count |-> 5] : c \in {49, 50}}

\* Full records, and the record with no key at all (every .get takes its default).
AnalysisRecords ==
    {[word_count |-> w, action_verbs |-> v, missing_sections |-> m, grammar |-> g,
      keyword_match |-> k] :
        w \in WordCounts, v \in VerbCounts, m \in MissingLists, g \in GrammarRecords,
        k \in KeywordRecords}
    \cup {EmptyDict}

\* Resume texts with 0, 4 and 5 bullet lines.
FallbackTexts ==
    {<<>>, Join(<<"\n">>, SubSeq(BulletDoc, 1, 4)), Join(<<"\n">>, BulletDoc)}

FallbackInit ==
    /\ FullInstallation
    /\ storage = {StoredBefore}
    /\ pc = "feedback"
    /\ file_name = None
    /\ job_desc \in JobDescriptions
    /\ feedback = <<>>
    /\ resume_text \in FallbackTexts
    /\ analysis \in AnalysisRecords
    /\ result = <<>>
    /\ raised = None
    /\ trace = <<>>
    /\ faults = {}
    /\ response = NoResponse

\* generate_feedback_fallback(resume_text, analysis, job_desc)
FallbackApply ==
    /\ pc = "feedback"
    /\ result' = generate_feedback_fallback(resume_text, analysis, job_desc)
    /\ trace' = Append(trace, "generate_feedback_fallback")
    /\ pc' = "suggested"
    /\ UNCHANGED <<capabilities, storage, file_name, job_desc, feedback, resume_text,
                   analysis, raised, faults, response>>

FallbackNext == FallbackApply

FallbackSpec == FallbackInit /\ [][FallbackNext]_vars

\* The positions of result that hold the number of a paragraph: the token before ". ".
NumberPositions == {i \in 1..(Len(result) - 1) : result[i + 1] = ". "}

\* The place of a suggestion in the fixed order, from the text it opens with (0: none).
SuggestionRank(t) ==
    IF t = AchievementsSuggestion[1] THEN 1
    ELSE IF t = "Add or clearly label these sections: " THEN 2
    ELSE IF t = "Fix grammar & typos (" THEN 3
    ELSE IF t \in {ImproveKeywordsSuggestion[1], GoodKeywordsSuggestion[1]} THEN 4
    ELSE IF t = BulletsSuggestion[1] THEN 5
    ELSE IF t = SummarySuggestion[1] THEN 6
    ELSE 0

\* C12: generate_feedback_fallback emits its suggestions in the fixed relative order
\* achievements, missing sections, grammar, keyword, bullets, summary; numbers them
\* consecutively 1..n with no gaps or repeats (1 <= n <= 6); always ends with the
\* professional-summary suggestion; and includes the achievements suggestion exactly
\* when the action-verb count is below 5 or the word count is below 250.
C12_FallbackOrderedAndNumbered ==
    pc = "suggested" =>
        LET n == Cardinality(NumberPositions)
        IN  /\ n \in 1..6
            /\ 1 \in NumberPositions
            \* one paragraph per number, paragraphs joined by a blank line
            /\ \A i \in 2..Len(result) :
                   (i \in NumberPositions) <=> (result[i - 1] = "\n\n")
            \* the k-th paragraph carries the number k
            /\ \A i \in NumberPositions :
                   result[i] = ToString(Cardinality({j \in NumberPositions : j <= i}))
            \* every paragraph is one of the six suggestions, in the fixed order
            /\ \A i \in NumberPositions : SuggestionRank(result[i + 2]) # 0
            /\ \A i, j \in NumberPositions :
                   i < j => SuggestionRank(result[i + 2]) < SuggestionRank(result[j + 2])
            \* the last paragraph is the professional summary
            /\ \E i \in NumberPositions :
                   /\ i + 2 = Len(result)
                   /\ result[i + 2] = SummarySuggestion[1]
            /\ Contains(result, AchievementsSuggestion[1])
                   <=> (Get(analysis, "action_verbs", 0) < 5
                        \/ Get(analysis, "word_count", 0) < 250)

\* All six suggestions in one list, the achievements one owed to the word count alone.
C12_Witness ==
    /\ pc = "suggested"
    /\ Cardinality(NumberPositions) = 6
    /\ Contains(result, AchievementsSuggestion[1])
    /\ Get(analysis, "action_verbs", 0) >= 5
    /\ Get(analysis, "word_count", 0) < 250

====
